---- MODULE Spec2Model ----
(***************************************************************************)
(* Model of blueprints/tasks.py: the task callbacks that the broker        *)
(* (poussetaches) invokes, the records they write in DB.activities and     *)
(* DB.notifications, and the signal each invocation answers with.          *)
(***************************************************************************)
EXTENDS Integers, Sequences, FiniteSets, TLC

\* ------------------------------------------------------------------ bounds
\* Callbacks the broker delivers in one behaviour, of any task.
MaxRuns == 2
\* Callbacks the broker delivers in one behaviour, of the poll tasks alone.
MaxPollRuns == 4
\* Duplicate callbacks the broker delivers at once.
MaxConcRuns == 3
\* Revisions a remote document (actor, question) goes through.
MaxRev == 2
\* Callback workers that run concurrently.
NumWorkers == 2
\* Attachments carried by an activity's object.
MaxAttach == 2
\* Callbacks the broker delivers in one behaviour, of the fan-out and delivery
\* tasks alone.
MaxDeliveryRuns == 4
\* Callbacks the broker delivers in one behaviour, of the caching tasks alone,
\* to workers that run concurrently.
MaxCacheRuns == 2

Workers == 1..NumWorkers

\* ------------------------------------------------------------- the records
\* The activity records of the scenario: remote_id, box, type and the ids of
\* the actor and of the object are set when the record is saved and are never
\* written by a task.
RecIds == {1, 2, 3, 4}

RemoteId(r) == CASE r = 1 -> "a1" [] r = 2 -> "a2" [] r = 3 -> "a3" [] OTHER -> "a4"

BoxOf(r) == IF r \in {1, 2} THEN "inbox" ELSE "outbox"

TypeOf(r) == CASE r = 1 -> "Create" [] r = 2 -> "Announce" [] r = 3 -> "Follow" [] OTHER -> "Create"

\* config.ID, the local identity.
ME == "me"

ActorIdOf(r) == CASE r = 1 -> "u1" [] r = 2 -> "u2" [] OTHER -> ME

\* id of the object of the activity (a question, or the followed actor).
ObjectIdOf(r) == CASE r = 1 -> "q1" [] r = 2 -> "q1" [] r = 3 -> "u1" [] OTHER -> "p1"

\* id of the author of that object.
ObjectActorIdOf(r) == CASE r = 1 -> "u1" [] r = 2 -> "u1" [] r = 3 -> "u1" [] OTHER -> ME

ActivityIris == {RemoteId(r) : r \in RecIds}

QuestionIris == {"q1", "p1"}

ActorIds == {"u1", "u2", ME}

\* Inboxes of the recipients of an outgoing activity.
Inboxes == {"i1", "i2", "i3"}

\* A remote document is its id and its revision; NoDoc is an absent field.
NoDoc == [id |-> "none", rev |-> 0]

Doc(i, n) == [id |-> i, rev |-> n]

NoHash == <<>>

\* core.activitypub._actor_hash: a digest of the actor's id and profile fields.
_actor_hash(actor) == <<actor.id, actor.rev>>

\* ------------------------------------------------------------- exceptions
NoErr == [cls |-> "none", status |-> 0]

Exc(c, s) == [cls |-> c, status |-> s]

ActivityGoneError == Exc("ActivityGoneError", 410)

ActivityNotFoundError == Exc("ActivityNotFoundError", 404)

NotAnActivityError == Exc("NotAnActivityError", 0)

ActivityUnavailableError == Exc("ActivityUnavailableError", 500)

\* requests.RequestException that is not an HTTPError (connection, timeout).
ConnectionError == Exc("ConnectionError", 0)

ValueError == Exc("ValueError", 0)

\* Any exception none of the handlers names.
OtherError == Exc("Exception", 0)

HttpStatuses == {400, 404, 499, 500}

HTTPErrors == {Exc("HTTPError", s) : s \in HttpStatuses}

\* What ap.fetch_remote_activity / fetch_iri raise: 410, 404, a document that
\* is no activity, 5xx, no answer; any other error status is an HTTPError.
ResolverErrors ==
    {ActivityGoneError, ActivityNotFoundError, NotAnActivityError,
     ActivityUnavailableError, ConnectionError}

\* What requests.post(...) followed by raise_for_status() raises.
PostErrors == HTTPErrors \cup {ConnectionError, OtherError}

\* What opengraph.fetch_og_metadata and MEDIA_CACHE.cache_og_image raise.
OgErrors == HTTPErrors \cup {ConnectionError, OtherError}

\* Revisions the resolver may serve: the remote changes on its own.
Revs == 1..MaxRev

\* ------------------------------------------------------------------ state
VARIABLES
    activities,     \* DB.activities: record id -> the fields the tasks write
    notifications,  \* DB.notifications: the inserted documents, in order
    hosts,          \* inbox -> [failed, successful] send counters
    posted,         \* activities post_to_outbox has saved
    inv,            \* worker -> the invocation it is running, or has just ended
    runs,           \* callbacks the broker has yet to deliver
    queue           \* the deliveries enqueued with the broker and not yet done

vars == <<activities, notifications, hosts, posted, inv, runs, queue>>

\* A follow-up request handed to Tasks.<name>(...).
Task(t, iri, to) == [task |-> t, iri |-> iri, to |-> to]

\* A worker between two callbacks. A running invocation keeps its place (pc),
\* its payload (iri, to) and its locals (local, doc, enq); one that has ended
\* (pc = "done") also shows what it did.
Idle ==
    [pc |-> "idle", task |-> "none", iri |-> "none", to |-> "none", err |-> NoErr,
     at |-> "none", signal |-> "none", rev |-> 0, local |-> 0, doc |-> NoDoc,
     enq |-> {}, tracked |-> <<>>, matched |-> {}, attempted |-> 0, total |-> 0]

\* An invocation that has ended: the exception it met (NoErr if none), the call
\* that raised it, and the signal the broker gets: "ok" (the empty response),
\* "TaskError", or "Exception" for what the handler does not catch.
Result(t, iri, e, at, sig) ==
    [Idle EXCEPT !.pc = "done", !.task = t, !.iri = iri, !.err = e,
                 !.at = IF e = NoErr THEN "none" ELSE at, !.signal = sig]

InitialRecord(r, cached) ==
    [deleted |-> FALSE,
     actor |-> IF cached THEN Doc(ActorIdOf(r), 1) ELSE NoDoc,
     actor_hash |-> IF cached THEN _actor_hash(Doc(ActorIdOf(r), 1)) ELSE NoHash,
     object |-> NoDoc,
     object_actor |-> NoDoc,
     object_actor_hash |-> NoHash,
     body |-> Doc(ObjectIdOf(r), IF TypeOf(r) = "Create" THEN 1 ELSE 0),
     og_metadata |-> 0,
     published |-> FALSE,
     voted_for |-> FALSE,
     subscribed |-> FALSE]

\* Records 1 and 3 were saved with their actor cached, 2 and 4 without; the
\* local user may have voted in, or subscribed to, the question of record 1.
PollFlags == {<<FALSE, FALSE>>, <<TRUE, FALSE>>, <<FALSE, TRUE>>}

InitWith(callbacks, pollFlags) ==
    /\ \E flags \in pollFlags :
          activities = [r \in RecIds |->
                          [InitialRecord(r, r \in {1, 3})
                              EXCEPT !.voted_for = flags[1] /\ r = 1,
                                     !.subscribed = flags[2] /\ r = 1]]
    /\ notifications = <<>>
    /\ hosts = [h \in Inboxes |-> [failed |-> 0, successful |-> 0]]
    /\ posted = 0
    /\ inv = [w \in Workers |-> Idle]
    /\ runs = callbacks
    /\ queue = {}

Init == InitWith(MaxRuns, PollFlags)

PollInit == InitWith(MaxPollRuns, PollFlags)

\* The duplicates are of the poll task of a question the local user voted in.
ConcInit == InitWith(MaxConcRuns, {<<TRUE, FALSE>>})

DeliveryInit == InitWith(MaxDeliveryRuns, {<<FALSE, FALSE>>})

CacheInit == InitWith(MaxCacheRuns, {<<TRUE, FALSE>>})

\* -------------------------------------------------------------- the store
\* core.meta.by_remote_id(iri): the filter {"remote_id": iri}.
by_remote_id(iri) == {r \in RecIds : RemoteId(r) = iri}

Min(S) == CHOOSE x \in S : \A y \in S : x <= y

\* update_one writes the first record its filter matches, or none.
FirstOf(matching) == IF matching = {} THEN {} ELSE {Min(matching)}

\* {"$set": {"meta.deleted": True}}
SetDeleted(rec, r) == [rec EXCEPT !.deleted = TRUE]

\* DB.activities after update_many: each matching record becomes what the
\* update makes of it (set, record id -> the record after the $set).
UpdateMany(matching, set) ==
    [r \in RecIds |-> IF r \in matching THEN set[r] ELSE activities[r]]

UpdateOne(matching, set) == UpdateMany(FirstOf(matching), set)

\* The $set of an update, applied to every record.
AllDeleted == [r \in RecIds |-> SetDeleted(activities[r], r)]

\* The broker delivers one more callback to an idle worker.
Deliver(w) ==
    /\ inv[w].pc = "idle"
    /\ runs > 0
    /\ runs' = runs - 1

\* The handler ends: result is what the invocation did.
Finish(w, result) == inv' = [inv EXCEPT ![w] = result]

\* The response reaches the broker and the worker is free again.
Return(w) ==
    /\ inv[w].pc = "done"
    /\ inv' = [inv EXCEPT ![w] = Idle]
    /\ UNCHANGED <<activities, notifications, hosts, posted, runs, queue>>

\* ------------------------------------------------ the retry classification
\* "if 400 >= err.response.status_code >= 499" of update_question,
\* post_to_remote_inbox and fetch_remote_question.
ClientErrorNoRetry(status) == 400 >= status /\ status >= 499

\* "if 400 <= http_err.response.status_code < 500" of fetch_og_meta.
OgClientErrorNoRetry(status) == 400 <= status /\ status < 500

\* except HTTPError ... raise TaskError() / except Exception: raise TaskError()
HTTPErrorSignal(e) ==
    IF e.cls = "HTTPError" /\ ClientErrorNoRetry(e.status) THEN "ok" ELSE "TaskError"

\* A handler whose first except clause names the classes in dropped.
DropSignal(e, dropped) == IF e = NoErr \/ e \in dropped THEN "ok" ELSE "TaskError"

\* The activity the resolver serves for iri: the one the record was saved from.
ActivityOf(iri) == CHOOSE r \in RecIds : RemoteId(r) = iri

\* --------------------------------------------------------- update_question
\* DB.activities.find_one({"box": "outbox", "remote_id": iri})
FindOutbox(iri) == FirstOf({r \in RecIds : BoxOf(r) = "outbox" /\ RemoteId(r) = iri})

\* ap.Question(**doc["activity"]["object"]) needs a record that embeds an object.
HasQuestion(iri) == \E r \in FindOutbox(iri) : TypeOf(r) = "Create"

task_update_question(w) ==
    /\ Deliver(w)
    /\ \E iri \in ActivityIris, e \in {NoErr, OtherError} \cup HTTPErrors :
          /\ HasQuestion(iri) \/ e = OtherError
          /\ posted' = IF e = NoErr THEN posted + 1 ELSE posted
          /\ Finish(w, [Result("update_question", iri, e, "post_to_outbox",
                               IF e = NoErr THEN "ok" ELSE HTTPErrorSignal(e))
                          EXCEPT !.enq = IF e = NoErr
                                         THEN {Task("finish_post_to_outbox", "update", "none")}
                                         ELSE {}])
    /\ UNCHANGED <<activities, notifications, hosts, queue>>

\* ------------------------------------------------------------ fetch_og_meta
\* {"$set": {"meta.og_metadata": og_metadata}}
SetOgMetadata(rec, n) == [rec EXCEPT !.og_metadata = n]

FetchOgMetaSignal(e) ==
    IF e = NoErr \/ e \in {ActivityGoneError, ActivityNotFoundError} THEN "ok"
    ELSE IF e.cls = "HTTPError" /\ OgClientErrorNoRetry(e.status) THEN "ok"
    ELSE "TaskError"

\* The log line after the if reads og_metadata, which only the Create branch binds.
UnboundLocalError == Exc("UnboundLocalError", 0)

\* The handler, called with task.payload = iri.
fetch_og_meta(w, iri) ==
    /\ Deliver(w)
    /\ \E n \in Revs, at \in {"resolve", "og", "log"},
          e \in {NoErr, UnboundLocalError} \cup ResolverErrors \cup OgErrors :
          LET create == TypeOf(ActivityOf(iri)) = "Create"
              wrote == create /\ at = "log"
          IN  /\ at = "resolve" => e \in ResolverErrors \cup HTTPErrors
              /\ at = "og" => create /\ e \in OgErrors
              /\ at = "log" => IF create THEN e = NoErr ELSE e = UnboundLocalError
              /\ ~wrote => n = 1
              /\ activities' =
                    IF wrote
                    THEN UpdateOne(by_remote_id(iri), [r \in RecIds |-> SetOgMetadata(activities[r], n)])
                    ELSE activities
              /\ Finish(w, [Result("fetch_og_meta", iri, e, at, FetchOgMetaSignal(e))
                              EXCEPT !.rev = IF wrote THEN n ELSE 0])
    /\ UNCHANGED <<notifications, hosts, posted, queue>>

task_fetch_og_meta(w) == \E iri \in ActivityIris : fetch_og_meta(w, iri)

\* ------------------------------------------------------------ cache_object
\* The write as it would be if it replaced meta by the cache dict instead of
\* setting its keys.
CacheObjectReplace(rec, r, n) ==
    [InitialRecord(r, FALSE) EXCEPT !.body = rec.body,
                                    !.object = Doc(ObjectIdOf(r), n)]

\* upsert(cache) of task_cache_object: meta.object always, the object's actor
\* only when it is not the activity's actor.
CacheObjectSet(rec, r, n) ==
    IF ActorIdOf(r) # ObjectActorIdOf(r)
    THEN [rec EXCEPT !.object = Doc(ObjectIdOf(r), n),
                     !.object_actor = Doc(ObjectActorIdOf(r), n),
                     !.object_actor_hash = _actor_hash(Doc(ObjectActorIdOf(r), n))]
    ELSE [rec EXCEPT !.object = Doc(ObjectIdOf(r), n)]

\* The except clause as it would be with the classes cache_actor names.
CacheObjectDroppedAsActor == {ActivityGoneError, ActivityNotFoundError}

CacheObjectDropped == {ActivityGoneError, ActivityNotFoundError, NotAnActivityError}

\* The handler, called with task.payload = iri.
cache_object(w, iri) ==
    /\ Deliver(w)
    /\ \E n \in Revs, e \in {NoErr} \cup ResolverErrors :
          /\ e # NoErr => n = 1
          /\ activities' =
                IF e = NoErr
                THEN UpdateOne(by_remote_id(iri), [r \in RecIds |-> CacheObjectSet(activities[r], r, n)])
                ELSE IF e \in CacheObjectDropped THEN UpdateOne(by_remote_id(iri), AllDeleted)
                ELSE activities
          /\ Finish(w, [Result("cache_object", iri, e, "resolve", DropSignal(e, CacheObjectDropped))
                          EXCEPT !.rev = IF e = NoErr THEN n ELSE 0])
    /\ UNCHANGED <<notifications, hosts, posted, queue>>

task_cache_object(w) == \E iri \in ActivityIris : cache_object(w, iri)

\* --------------------------------------------------- finish_post_to_outbox
\* The loop as it would be if it left after the first recipient.
FanOutOne(iri, recipients) ==
    {Task("post_to_remote_inbox", iri, CHOOSE recp \in recipients : TRUE)}

\* Tasks.post_to_remote_inbox(payload, recp) for every recipient.
FanOut(iri, recipients) == {Task("post_to_remote_inbox", iri, recp) : recp \in recipients}

FinishOutboxDropped == {ActivityGoneError, ActivityNotFoundError}

\* process_outbox (core.outbox) may raise anything; it is the last call before
\* the fan-out.
task_finish_post_to_outbox(w) ==
    /\ Deliver(w)
    /\ \E iri \in ActivityIris, at \in {"resolve", "process_outbox"},
          e \in {NoErr, OtherError} \cup ResolverErrors :
          /\ at = "resolve" => e \in ResolverErrors
          /\ at = "process_outbox" => e \in {NoErr, OtherError}
          /\ Finish(w, [Result("finish_post_to_outbox", iri, e, at,
                               DropSignal(e, FinishOutboxDropped))
                          EXCEPT !.enq = IF e = NoErr THEN FanOut(iri, Inboxes) ELSE {}])
          /\ queue' = IF e = NoErr THEN queue \cup FanOut(iri, Inboxes) ELSE queue
    /\ UNCHANGED <<activities, notifications, hosts, posted>>

\* ---------------------------------------------------- finish_post_to_inbox
FinishInboxDropped == {ActivityGoneError, ActivityNotFoundError, NotAnActivityError}

task_finish_post_to_inbox(w) ==
    /\ Deliver(w)
    /\ \E iri \in ActivityIris, at \in {"resolve", "process_inbox"},
          e \in {NoErr, OtherError} \cup ResolverErrors :
          /\ at = "resolve" => e \in ResolverErrors
          /\ at = "process_inbox" => e \in {NoErr, OtherError}
          /\ Finish(w, Result("finish_post_to_inbox", iri, e, at,
                              DropSignal(e, FinishInboxDropped)))
    /\ UNCHANGED <<activities, notifications, hosts, posted, queue>>

\* -------------------------------------------------------- cache_attachments
\* What MEDIA_CACHE.cache_attachment does with one attachment.
AttachmentOutcomes == {"cached", "ValueError", "Exception"}

RECURSIVE AttachmentLists(_)
\* The outcomes of the attachments of an object that has n of them.
AttachmentLists(n) ==
    IF n = 0 THEN {<<>>}
    ELSE {Append(l, o) : l \in AttachmentLists(n - 1), o \in AttachmentOutcomes}

RECURSIVE Attempted(_)
\* for attachment in ...: try: cache_attachment(...) except ValueError: log.
\* The attachments the loop reaches: an exception other than ValueError leaves it.
Attempted(outs) ==
    IF outs = <<>> THEN 0
    ELSE IF Head(outs) = "Exception" THEN 1
    ELSE 1 + Attempted(Tail(outs))

CacheAttachmentsDropped == {ActivityGoneError, ActivityNotFoundError, NotAnActivityError}

task_cache_attachments(w) ==
    /\ Deliver(w)
    /\ \E iri \in ActivityIris, k \in 0..MaxAttach, e \in {NoErr} \cup ResolverErrors :
       \E outs \in AttachmentLists(IF e = NoErr THEN k ELSE 0) :
          LET broke == \E i \in 1..Len(outs) : outs[i] = "Exception"
              err == IF broke THEN OtherError ELSE e
          IN  /\ e # NoErr => k = 0
              /\ Finish(w, [Result("cache_attachments", iri, err,
                                   IF broke THEN "cache_attachment" ELSE "resolve",
                                   DropSignal(err, CacheAttachmentsDropped))
                              EXCEPT !.attempted = Attempted(outs), !.total = Len(outs)])
    /\ UNCHANGED <<activities, notifications, hosts, posted, queue>>

\* --------------------------------------------------------- forward_activity
\* The only except clause is "except Exception: raise TaskError()".
task_forward_activity(w) ==
    /\ Deliver(w)
    /\ \E iri \in ActivityIris, e \in {NoErr} \cup ResolverErrors :
          /\ Finish(w, [Result("forward_activity", iri, e, "resolve", DropSignal(e, {}))
                          EXCEPT !.enq = IF e = NoErr THEN FanOut(iri, Inboxes) ELSE {}])
          /\ queue' = IF e = NoErr THEN queue \cup FanOut(iri, Inboxes) ELSE queue
    /\ UNCHANGED <<activities, notifications, hosts, posted>>

\* ----------------------------------------------------- post_to_remote_inbox
\* core.remote.track_failed_send / track_successful_send: one more in the
\* counter of the host.
track_failed_send(h, to) == [h EXCEPT ![to].failed = @ + 1]

track_successful_send(h, to) == [h EXCEPT ![to].successful = @ + 1]

\* The track_* calls of one invocation, in order, by the outcome of the POST.
\*   HTTPError: track_failed_send, then return "" or raise TaskError
\*   any other RequestException: track_failed_send, log, fall out of the try
\*   and reach track_successful_send
\*   any other exception: raise TaskError
Tracked(e) ==
    IF e = NoErr THEN <<"successful">>
    ELSE IF e.cls = "HTTPError" THEN <<"failed">>
    ELSE IF e = ConnectionError THEN <<"failed", "successful">>
    ELSE <<>>

PostSignal(e) ==
    IF e = NoErr THEN "ok"
    ELSE IF e.cls = "HTTPError" THEN HTTPErrorSignal(e)
    ELSE IF e = ConnectionError THEN "ok"
    ELSE "TaskError"

RECURSIVE ApplyTracked(_, _, _)
ApplyTracked(h, to, calls) ==
    IF calls = <<>> THEN h
    ELSE ApplyTracked(IF Head(calls) = "failed" THEN track_failed_send(h, to)
                      ELSE track_successful_send(h, to), to, Tail(calls))

\* The handler, called with task.payload = {"payload": payload, "to": to}: the
\* payload is a JSON document the handler only parses and sends on.
post_to_remote_inbox(w, payload, to) ==
    \E at \in {"json", "post"}, e \in {NoErr, ValueError} \cup PostErrors :
        LET calls == IF at = "json" THEN <<>> ELSE Tracked(e) IN
        /\ at = "json" => e = ValueError
        /\ at = "post" => e \in {NoErr} \cup PostErrors
        /\ hosts' = ApplyTracked(hosts, to, calls)
        /\ Finish(w, [Result("post_to_remote_inbox", payload, e, at,
                             IF at = "json" THEN "TaskError" ELSE PostSignal(e))
                        EXCEPT !.to = to, !.tracked = calls])

\* A delivery of the task that no fan-out of the behaviour has enqueued (a
\* duplicate, or one enqueued before).
task_post_to_remote_inbox(w) ==
    /\ Deliver(w)
    /\ \E to \in Inboxes : post_to_remote_inbox(w, "payload", to)
    /\ UNCHANGED <<activities, notifications, posted, queue>>

\* The broker delivers the enqueued task t; it keeps the task for a retry when
\* the response is an error, and is done with it otherwise.
deliver_post_to_remote_inbox(w, t) ==
    /\ Deliver(w)
    /\ t \in queue
    /\ post_to_remote_inbox(w, t.iri, t.to)
    /\ queue' = IF inv'[w].signal = "ok" THEN queue \ {t} ELSE queue
    /\ UNCHANGED <<activities, notifications, posted>>

queued_post_to_remote_inbox(w) == \E t \in queue : deliver_post_to_remote_inbox(w, t)

\* ------------------------------------------------------------------ cleanup
\* gc.perform() is not inside a try: what it raises leaves the handler as it is.
task_cleanup(w) ==
    /\ Deliver(w)
    /\ \E e \in {NoErr, OtherError} :
          Finish(w, Result("cleanup", "none", e, "gc", IF e = NoErr THEN "ok" ELSE "Exception"))
    /\ UNCHANGED <<activities, notifications, hosts, posted, queue>>

\* ----------------------------------------------------- process_new_activity
\* {"$set": flags}, flags holding meta.published.
SetPublished(rec, r) == [rec EXCEPT !.published = TRUE]

ProcessNewDropped == {ActivityGoneError, ActivityNotFoundError}

task_process_new_activity(w) ==
    /\ Deliver(w)
    /\ \E iri \in ActivityIris, at \in {"resolve", "set_inbox_flags"},
          e \in {NoErr, OtherError} \cup ResolverErrors :
          /\ at = "resolve" => e \in ResolverErrors
          /\ at = "set_inbox_flags" => e \in {NoErr, OtherError}
          /\ activities' =
                IF e = NoErr THEN UpdateOne(by_remote_id(iri), [r \in RecIds |-> SetPublished(activities[r], r)]) ELSE activities
          /\ Finish(w, [Result("process_new_activity", iri, e, at,
                               DropSignal(e, ProcessNewDropped))
                          EXCEPT !.enq = IF e = NoErr /\ TypeOf(ActivityOf(iri)) # "Delete"
                                         THEN {Task("cache_actor", iri, "none")} ELSE {}])
    /\ UNCHANGED <<notifications, hosts, posted, queue>>

\* -------------------------------------------------------------- cache_actor
CacheActorDropped == {ActivityGoneError, ActivityNotFoundError}

\* The filter of the update_many: meta.actor_id is the actor's and
\* meta.actor_hash is not the hash of the document just fetched.
StaleActorRecords(actor) ==
    {r \in RecIds : ActorIdOf(r) = actor.id /\ activities[r].actor_hash # _actor_hash(actor)}

\* The write as it would be if it replaced meta by {actor: ...} instead of
\* setting that key.
CacheActorReplace(rec, actor) ==
    [rec EXCEPT !.actor = actor, !.object = NoDoc, !.object_actor = NoDoc,
                !.object_actor_hash = NoHash, !.og_metadata = 0]

\* upsert({MetaKey.ACTOR: actor.to_dict(embed=True)})
CacheActorSet(rec, actor) == [rec EXCEPT !.actor = actor]

\* upsert({MetaKey.OBJECT: activity.get_object().to_dict(embed=True)})
CacheFollowedSet(rec, r, n) == [rec EXCEPT !.object = Doc(ObjectIdOf(r), n)]

\* The handler, called with task.payload = {"iri": iri}: both resolves, the
\* enqueue of fetch_og_meta and the caching of the icon, up to the first write
\* of the handler.
cache_actor(w, iri) ==
    /\ Deliver(w)
    /\ \E n \in Revs, at \in {"resolve", "cache_actor_icon"},
          e \in {NoErr, OtherError} \cup ResolverErrors :
          LET a == ActivityOf(iri)
              actor == Doc(ActorIdOf(a), n)
              og == IF TypeOf(a) = "Create" THEN {Task("fetch_og_meta", iri, "none")} ELSE {}
          IN  /\ at = "resolve" => e \in ResolverErrors /\ n = 1
              /\ at = "cache_actor_icon" => e \in {NoErr, OtherError}
              /\ activities' =
                    IF e \in CacheActorDropped THEN UpdateOne(by_remote_id(iri), AllDeleted)
                    ELSE activities
              /\ IF e # NoErr
                 THEN Finish(w, [Result("cache_actor", iri, e, at, DropSignal(e, CacheActorDropped))
                                   EXCEPT !.enq = IF at = "resolve" THEN {} ELSE og])
                 ELSE inv' = [inv EXCEPT ![w] =
                                [Idle EXCEPT !.pc = IF TypeOf(a) = "Follow" /\ actor.id = ME
                                                    THEN "follow" ELSE "update_many",
                                             !.task = "cache_actor", !.iri = iri,
                                             !.doc = actor, !.rev = n, !.enq = og]]
    /\ UNCHANGED <<notifications, hosts, posted, queue>>

task_cache_actor(w) == \E iri \in ActivityIris : cache_actor(w, iri)

\* if activity.has_type(FOLLOW) and actor.id == config.ID: cache the followed
\* actor in the record of the Follow.
cache_actor_follow(w) ==
    /\ inv[w].task = "cache_actor" /\ inv[w].pc = "follow"
    /\ \E n \in Revs, e \in {NoErr} \cup ResolverErrors :
          /\ e # NoErr => n = 1
          /\ activities' =
                IF e = NoErr
                THEN UpdateOne(by_remote_id(inv[w].iri),
                               [r \in RecIds |-> CacheFollowedSet(activities[r], r, n)])
                ELSE IF e \in CacheActorDropped
                THEN UpdateOne(by_remote_id(inv[w].iri), AllDeleted)
                ELSE activities
          /\ IF e # NoErr
             THEN Finish(w, [Result("cache_actor", inv[w].iri, e, "get_object",
                                    DropSignal(e, CacheActorDropped))
                               EXCEPT !.enq = inv[w].enq])
             ELSE inv' = [inv EXCEPT ![w].pc = "update_many"]
    /\ UNCHANGED <<notifications, hosts, posted, runs, queue>>

\* The update_many, then the enqueue of cache_attachments.
cache_actor_update_many(w) ==
    /\ inv[w].task = "cache_actor" /\ inv[w].pc = "update_many"
    /\ LET actor == inv[w].doc
           matching == StaleActorRecords(actor)
           attach == IF TypeOf(ActivityOf(inv[w].iri)) \in {"Create", "Announce"}
                     THEN {Task("cache_attachments", inv[w].iri, "none")} ELSE {}
       IN  /\ activities' = UpdateMany(matching, [r \in RecIds |-> CacheActorSet(activities[r], actor)])
           /\ Finish(w, [Result("cache_actor", inv[w].iri, NoErr, "none", "ok")
                           EXCEPT !.doc = actor, !.rev = actor.rev, !.matched = matching,
                                  !.enq = inv[w].enq \cup attach])
    /\ UNCHANGED <<notifications, hosts, posted, runs, queue>>

\* ---------------------------------------------------- fetch_remote_question
\* find_one({"box": "inbox", "type": "Create", "activity.object.id": iri}),
\* 0 for None.
FindLocalQuestion(iri) ==
    LET found == {r \in RecIds : /\ BoxOf(r) = "inbox"
                                 /\ TypeOf(r) = "Create"
                                 /\ activities[r].body.id = iri}
    IN  IF found = {} THEN 0 ELSE Min(found)

\* The existence check as it would be with the filter on a field the documents
\* do not have ({"id": ...} for {"activity.id": ...}): it never finds one.
NotificationExistsById(id) == \E i \in 1..Len(notifications) : notifications[i].type = id

\* The existence check as it would be with the filter on the type.
NotificationExistsByType(id) ==
    \E i \in 1..Len(notifications) : notifications[i].type = "poll_ended"

\* DB.notifications.find_one({"activity.id": id}) finds a document.
NotificationExists(id) == \E i \in 1..Len(notifications) : notifications[i].activity.id = id

QuestionEnded(question) == [type |-> "question_ended", activity |-> question]

\* {"$set": {"activity.object": remote_question}}
SetActivityObject(rec, question) == [rec EXCEPT !.body = question]

\* The update_many as it would be if it wrote nothing.
SetMetaObjectSkipped(rec, question) == rec

\* {"$set": {"meta.object": remote_question}}
SetMetaObject(rec, question) == [rec EXCEPT !.object = question]

\* The handler, called with task.payload = iri: the find_one of the local
\* record and the fetch of the remote question.
fetch_remote_question(w, iri) ==
    /\ Deliver(w)
    /\ \E n \in Revs, e \in {NoErr} \cup ResolverErrors \cup HTTPErrors :
          /\ e # NoErr => n = 1
          /\ IF e # NoErr
             THEN Finish(w, Result("fetch_remote_question", iri, e, "resolve", HTTPErrorSignal(e)))
             ELSE inv' = [inv EXCEPT ![w] =
                            [Idle EXCEPT !.pc = "check", !.task = "fetch_remote_question",
                                         !.iri = iri, !.local = FindLocalQuestion(iri),
                                         !.doc = Doc(iri, n), !.rev = n]]
    /\ UNCHANGED <<activities, notifications, hosts, posted, queue>>

task_fetch_remote_question(w) == \E iri \in QuestionIris : fetch_remote_question(w, iri)

\* if local_question and (voted_for or subscribed) and not find_one(...)
fetch_remote_question_check(w) ==
    /\ inv[w].task = "fetch_remote_question" /\ inv[w].pc = "check"
    /\ LET local == inv[w].local
           notify == /\ local # 0
                     /\ activities[local].voted_for \/ activities[local].subscribed
                     /\ ~NotificationExists(inv[w].doc.id)
       IN  inv' = [inv EXCEPT ![w].pc = IF notify THEN "insert"
                                        ELSE IF local # 0 THEN "update_one"
                                        ELSE "update_many"]
    /\ UNCHANGED <<activities, notifications, hosts, posted, runs, queue>>

\* DB.notifications.insert_one(...)
fetch_remote_question_insert(w) ==
    /\ inv[w].task = "fetch_remote_question" /\ inv[w].pc = "insert"
    /\ notifications' = Append(notifications, QuestionEnded(inv[w].doc))
    /\ inv' = [inv EXCEPT ![w].pc = "update_one"]
    /\ UNCHANGED <<activities, hosts, posted, runs, queue>>

\* update_one({"remote_id": local_question["remote_id"], "box": "inbox"}, ...)
fetch_remote_question_update_one(w) ==
    /\ inv[w].task = "fetch_remote_question" /\ inv[w].pc = "update_one"
    /\ activities' =
          UpdateOne({r \in RecIds : RemoteId(r) = RemoteId(inv[w].local) /\ BoxOf(r) = "inbox"},
                    [r \in RecIds |-> SetActivityObject(activities[r], inv[w].doc)])
    /\ inv' = [inv EXCEPT ![w].pc = "update_many"]
    /\ UNCHANGED <<notifications, hosts, posted, runs, queue>>

\* update_many({"meta.object.id": remote_question["id"]}, ...)
fetch_remote_question_update_many(w) ==
    /\ inv[w].task = "fetch_remote_question" /\ inv[w].pc = "update_many"
    /\ LET matching == {r \in RecIds : activities[r].object.id = inv[w].doc.id} IN
       /\ activities' = UpdateMany(matching, [r \in RecIds |-> SetMetaObject(activities[r], inv[w].doc)])
       /\ Finish(w, [Result("fetch_remote_question", inv[w].iri, NoErr, "none", "ok")
                       EXCEPT !.local = inv[w].local, !.doc = inv[w].doc,
                              !.rev = inv[w].rev, !.matched = matching])
    /\ UNCHANGED <<notifications, hosts, posted, runs, queue>>

\* ------------------------------------------------------ the specifications
\* The broker delivers one callback at a time.
Next ==
    \E w \in {1} :
        \/ task_update_question(w)
        \/ task_fetch_og_meta(w)
        \/ task_cache_object(w)
        \/ task_finish_post_to_outbox(w)
        \/ task_finish_post_to_inbox(w)
        \/ task_cache_attachments(w)
        \/ task_cache_actor(w)
        \/ cache_actor_follow(w)
        \/ cache_actor_update_many(w)
        \/ task_forward_activity(w)
        \/ task_post_to_remote_inbox(w)
        \/ task_fetch_remote_question(w)
        \/ fetch_remote_question_check(w)
        \/ fetch_remote_question_insert(w)
        \/ fetch_remote_question_update_one(w)
        \/ fetch_remote_question_update_many(w)
        \/ task_cleanup(w)
        \/ task_process_new_activity(w)
        \/ Return(w)

Spec == Init /\ [][Next]_vars

\* The broker delivers duplicates of fetch_remote_question to several workers
\* at once.
ConcNext ==
    \E w \in Workers :
        \/ task_fetch_remote_question(w)
        \/ fetch_remote_question_check(w)
        \/ fetch_remote_question_insert(w)
        \/ fetch_remote_question_update_one(w)
        \/ fetch_remote_question_update_many(w)
        \/ Return(w)

ConcSpec == ConcInit /\ [][ConcNext]_vars

\* The broker delivers the poll task and the caching of the objects, one
\* callback at a time.
PollNext ==
    \E w \in {1} :
        \/ task_cache_object(w)
        \/ task_fetch_remote_question(w)
        \/ fetch_remote_question_check(w)
        \/ fetch_remote_question_insert(w)
        \/ fetch_remote_question_update_one(w)
        \/ fetch_remote_question_update_many(w)
        \/ Return(w)

PollSpec == PollInit /\ [][PollNext]_vars

\* The broker delivers the fan-out tasks, and the deliveries they enqueue, one
\* callback at a time.
DeliveryNext ==
    \E w \in {1} :
        \/ task_finish_post_to_outbox(w)
        \/ task_forward_activity(w)
        \/ queued_post_to_remote_inbox(w)
        \/ Return(w)

DeliverySpec == DeliveryInit /\ [][DeliveryNext]_vars

\* The activities whose caching tasks race: the Create of question q1 and its
\* Announce, and the poll task of that question.
CacheIris == {"a1", "a2"}

CacheQuestion == "q1"

\* The broker delivers the caching tasks of these activities to several workers
\* at once: their store operations interleave.
CacheNext ==
    \E w \in Workers :
        \/ \E iri \in CacheIris : cache_actor(w, iri)
        \/ cache_actor_update_many(w)
        \/ \E iri \in CacheIris : cache_object(w, iri)
        \/ \E iri \in CacheIris : fetch_og_meta(w, iri)
        \/ fetch_remote_question(w, CacheQuestion)
        \/ fetch_remote_question_check(w)
        \/ fetch_remote_question_insert(w)
        \/ fetch_remote_question_update_one(w)
        \/ fetch_remote_question_update_many(w)
        \/ Return(w)

CacheSpec == CacheInit /\ [][CacheNext]_vars

\* ----------------------------------------------------------------- claims
Done(w, t) == inv[w].pc = "done" /\ inv[w].task = t

\* The poll-closure notifications stored for a question id.
PollNotifications(q) ==
    {i \in 1..Len(notifications) :
        notifications[i].type = "question_ended" /\ notifications[i].activity.id = q}

\* C1: in update_question, fetch_og_meta, post_to_remote_inbox and
\* fetch_remote_question an HTTP error with a status in 400..499 ends the
\* invocation with the empty response, never with TaskError.
C1_ClientErrorNoRetry ==
    \A w \in Workers :
        /\ inv[w].pc = "done"
        /\ inv[w].task \in {"update_question", "fetch_og_meta", "post_to_remote_inbox",
                            "fetch_remote_question"}
        /\ inv[w].err.cls = "HTTPError"
        /\ inv[w].err.status \in 400..499
        => inv[w].signal = "ok"

\* C2: in every handler that resolves a remote IRI, Gone or NotFound from the
\* resolver never ends with TaskError and a remote 500 always does.
C2_GoneNeverRetried ==
    \A w \in Workers :
        /\ inv[w].pc = "done"
        /\ inv[w].task \in {"fetch_og_meta", "cache_object", "finish_post_to_outbox",
                            "finish_post_to_inbox", "cache_attachments", "cache_actor",
                            "forward_activity", "fetch_remote_question",
                            "process_new_activity"}
        /\ inv[w].at \in {"resolve", "get_object"}
        => /\ inv[w].err \in {ActivityGoneError, ActivityNotFoundError}
                => inv[w].signal # "TaskError"
           /\ inv[w].err.status = 500 => inv[w].signal = "TaskError"

\* C3: on NotAnActivity, cache_actor as well as cache_object set meta.deleted on
\* the record of the task's IRI and end with the empty response.
C3_NotAnActivityTombstones ==
    \A w \in Workers :
        /\ inv[w].pc = "done"
        /\ inv[w].task \in {"cache_actor", "cache_object"}
        /\ inv[w].err = NotAnActivityError
        => /\ inv[w].signal = "ok"
           /\ \A r \in FirstOf(by_remote_id(inv[w].iri)) : activities[r].deleted

\* C4: in post_to_remote_inbox a network error or a 5xx answer to the POST is
\* recorded as a failed send of the host and the invocation ends with TaskError.
C4_TransientSendRetried ==
    \A w \in Workers :
        /\ Done(w, "post_to_remote_inbox")
        /\ inv[w].at = "post"
        /\ \/ inv[w].err = ConnectionError
           \/ inv[w].err.cls = "HTTPError" /\ inv[w].err.status \in 500..599
        => /\ inv[w].tracked = <<"failed">>
           /\ inv[w].signal = "TaskError"

\* C5: the update_many of a cache_actor that succeeds with a document hashing
\* to h writes exactly the records of that actor whose hash is not h, leaves
\* each of them with meta.actor = the document and meta.actor_hash = h, and
\* leaves every other record as it was.
C5_StaleRecordsRefreshed ==
    [][\A w \in Workers :
          /\ inv[w].task = "cache_actor" /\ inv[w].pc = "update_many"
          /\ inv'[w].pc = "done"
          => LET actor == inv[w].doc
                 h == _actor_hash(actor)
                 stale == {r \in RecIds : ActorIdOf(r) = actor.id /\ activities[r].actor_hash # h}
             IN  \A r \in RecIds :
                    IF r \in stale
                    THEN activities'[r].actor = actor /\ activities'[r].actor_hash = h
                    ELSE activities'[r] = activities[r]]_vars

\* C6: after a cache_actor that succeeded, no record of that actor still matches
\* the stale-hash filter for the document it fetched, so a second run on the
\* unchanged document matches nothing.
C6_SecondRefreshMatchesNothing ==
    \A w \in Workers :
        Done(w, "cache_actor") /\ inv[w].err = NoErr
        => StaleActorRecords(inv[w].doc) = {}

\* C7: with one fetch_remote_question at a time, a question never has more than
\* one question_ended notification, and a run that ends for a question the
\* local user voted in or subscribed to leaves exactly one.
C7_OneNotificationSequentially ==
    /\ \A q \in QuestionIris : Cardinality(PollNotifications(q)) <= 1
    /\ \A w \in Workers :
          /\ Done(w, "fetch_remote_question") /\ inv[w].err = NoErr
          /\ inv[w].local # 0
          /\ activities[inv[w].local].voted_for \/ activities[inv[w].local].subscribed
          => Cardinality(PollNotifications(inv[w].doc.id)) = 1

\* A later run has fetched another revision of the question than the one the
\* first run stored in the notification, and has inserted nothing.
C7_Witness ==
    /\ Done(1, "fetch_remote_question") /\ inv[1].err = NoErr
    /\ Len(notifications) = 1
    /\ notifications[1].activity.id = inv[1].doc.id
    /\ notifications[1].activity.rev # inv[1].doc.rev
    /\ runs <= MaxPollRuns - 2

\* C8 as stated: whatever the interleaving of the duplicates, a question id has
\* at most one question_ended notification.
C8_AtMostOneConcurrently == \A q \in QuestionIris : Cardinality(PollNotifications(q)) <= 1

\* C8 as amended: a question id has at most one question_ended notification for
\* each invocation that can be between its existence check and its insert at
\* the same time, and an invocation whose check runs once a notification is
\* stored inserts none.
C8_OnePerOverlappingInvocation ==
    /\ [](\A q \in QuestionIris : Cardinality(PollNotifications(q)) <= NumWorkers)
    /\ [][\A w \in Workers :
             /\ inv[w].task = "fetch_remote_question" /\ inv[w].pc = "check"
             /\ PollNotifications(inv[w].doc.id) # {}
             => inv'[w].pc # "insert"]_vars

\* Two duplicates both passed the check before either inserted.
C8_Witness == Cardinality(PollNotifications("q1")) = 2

\* C9: once a record has meta.deleted = true no task changes its activity body.
C9_TombstonedBodyFrozen ==
    [][\A r \in RecIds : activities[r].deleted => activities'[r].body = activities[r].body]_vars

\* C10: once a record is tombstoned, a later cache_object or cache_actor for its
\* IRI writes no cached snapshot into it.
C10_TombstonedNotCached ==
    [][\A r \in RecIds, w \in Workers :
          /\ activities[r].deleted
          /\ inv'[w] # inv[w]
          /\ inv'[w].task \in {"cache_object", "cache_actor"}
          /\ inv'[w].iri = RemoteId(r)
          => /\ activities'[r].object = activities[r].object
             /\ activities'[r].object_actor = activities[r].object_actor
             /\ activities'[r].object_actor_hash = activities[r].object_actor_hash
             /\ activities'[r].actor = activities[r].actor]_vars

\* The step ends invocation w of task t.
Ends(w, t) == inv'[w] # inv[w] /\ inv'[w].pc = "done" /\ inv'[w].task = t

\* The step is the except clause of cache_object or cache_actor setting
\* meta.deleted on record r.
Tombstones(w, r) ==
    /\ r \in FirstOf(by_remote_id(inv'[w].iri))
    /\ \/ Ends(w, "cache_object") /\ inv'[w].err \in CacheObjectDropped
       \/ Ends(w, "cache_actor") /\ inv'[w].err \in CacheActorDropped

\* C11: whatever the interleaving of the caching tasks, no step takes
\* meta.deleted of a record from true to false, and a step that tombstones a
\* record already tombstoned leaves the record as it was.
C11_TombstoneOneWay ==
    [][\A r \in RecIds :
          activities[r].deleted
          => /\ activities'[r].deleted
             /\ \A w \in Workers : Tombstones(w, r) => activities'[r] = activities[r]]_vars

\* A cache_object that succeeded wrote its snapshot into a record that was
\* tombstoned before, and the record still is.
C11_Witness ==
    \E w \in Workers :
        /\ Done(w, "cache_object") /\ inv[w].err = NoErr
        /\ \E r \in FirstOf(by_remote_id(inv[w].iri)) :
              activities[r].deleted /\ activities[r].object # NoDoc

\* C12: a cache_object that meets Gone, NotFound or NotAnActivity sets
\* meta.deleted on the record of its IRI, writes nothing else and ends with the
\* empty response; one that meets any other failure ends with TaskError and
\* writes nothing.
C12_CacheObjectErrors ==
    [][\A w \in Workers :
          Ends(w, "cache_object") /\ inv'[w].err # NoErr
          => LET hit == FirstOf(by_remote_id(inv'[w].iri)) IN
             IF inv'[w].err \in {ActivityGoneError, ActivityNotFoundError, NotAnActivityError}
             THEN /\ inv'[w].signal = "ok"
                  /\ activities' = [r \in RecIds |->
                                      IF r \in hit THEN [activities[r] EXCEPT !.deleted = TRUE]
                                      ELSE activities[r]]
             ELSE /\ inv'[w].signal = "TaskError"
                  /\ activities' = activities]_vars

\* cache_object met a document that is no activity: the record is tombstoned
\* and holds no snapshot.
C12_Witness ==
    /\ Done(1, "cache_object") /\ inv[1].err = NotAnActivityError
    /\ inv[1].iri = "a2"
    /\ activities[2].deleted /\ activities[2].object = NoDoc

\* C13: whenever an invocation of cache_actor has enqueued fetch_og_meta or
\* cache_attachments, its update of the actor snapshot has been applied: the
\* invocation has ended without an error.
C13_FollowUpAfterWrites ==
    \A w \in Workers :
        inv[w].task = "cache_actor" /\ inv[w].enq # {}
        => inv[w].pc = "done" /\ inv[w].err = NoErr /\ inv[w].signal = "ok"

\* The step ends a delivery of the enqueued task t by worker w.
Delivers(w, t) ==
    /\ Ends(w, "post_to_remote_inbox")
    /\ inv'[w].iri = t.iri /\ inv'[w].to = t.to

\* C14: a fan-out that succeeds enqueues one delivery for every recipient;
\* every enqueued delivery can be attempted whatever became of the others; and
\* the attempt of one delivery, failed or not, takes no other delivery from the
\* queue, changes the counters of no other host, and records its own success.
C14_FanOutIsolated ==
    /\ [](\A w \in Workers :
             /\ Done(w, "finish_post_to_outbox") \/ Done(w, "forward_activity")
             /\ inv[w].err = NoErr
             => \A recp \in Inboxes :
                   /\ Task("post_to_remote_inbox", inv[w].iri, recp) \in inv[w].enq
                   /\ Task("post_to_remote_inbox", inv[w].iri, recp) \in queue)
    /\ [](\A t \in queue :
             inv[1].pc = "idle" /\ runs > 0 => ENABLED deliver_post_to_remote_inbox(1, t))
    /\ [][\A w \in Workers, t \in queue :
             Delivers(w, t)
             => /\ \A u \in queue \ {t} : u \in queue'
                /\ \A h \in Inboxes \ {t.to} : hosts'[h] = hosts[h]
                /\ inv'[w].err = NoErr
                      => hosts'[t.to] = [hosts[t.to] EXCEPT !.successful = @ + 1]]_vars

\* Of the three deliveries of one fan-out, the one to i2 met a network error;
\* those to i1 and i3 were attempted and recorded, the one to i3 after it.
C14_Witness ==
    /\ Done(1, "post_to_remote_inbox") /\ inv[1].to = "i3" /\ inv[1].err = NoErr
    /\ hosts["i2"].failed = 1
    /\ hosts["i1"] = [failed |-> 0, successful |-> 1]
    /\ hosts["i3"] = [failed |-> 0, successful |-> 1]
    /\ queue = {}

C16_RerunAddsNothing ==
    [][\A w \in Workers :
          Ends(w, "update_question") /\ inv'[w].err = NoErr /\ posted > 0
          => /\ posted' = posted
             /\ activities' = activities
             /\ notifications' = notifications]_vars

\* C17: a cache_attachments that resolved its activity reaches every
\* attachment and ends with the empty response, whatever the caching of one of
\* them raised.
C17_BadAttachmentIsolated ==
    \A w \in Workers :
        Done(w, "cache_attachments") /\ inv[w].at # "resolve"
        => inv[w].attempted = inv[w].total /\ inv[w].signal = "ok"

\* C18: a post_to_remote_inbox that reached the POST records exactly one
\* outcome: a successful send if the POST returned no error, a failed send if
\* it did.
C18_OneOutcomeRecorded ==
    \A w \in Workers :
        /\ Done(w, "post_to_remote_inbox") /\ inv[w].at # "json"
        /\ inv[w].err \in {NoErr, ConnectionError} \cup HTTPErrors
        => inv[w].tracked = IF inv[w].err = NoErr THEN <<"successful">> ELSE <<"failed">>

\* The step is one of worker w's invocation of task t.
WritesAs(w, t) == inv'[w] # inv[w] /\ inv'[w].task = t

\* C19: when a fetch_remote_question has succeeded, the inbox Create it found
\* embeds the question it fetched and every record whose meta.object.id is the
\* question's has it as meta.object; and its writes leave as they were all
\* records but that Create and those whose meta.object.id is the question's.
C19_QuestionRefreshed ==
    /\ [](\A w \in Workers :
             Done(w, "fetch_remote_question") /\ inv[w].err = NoErr
             => /\ inv[w].local # 0 => activities[inv[w].local].body = inv[w].doc
                /\ \A r \in RecIds :
                      activities[r].object.id = inv[w].doc.id
                      => activities[r].object = inv[w].doc)
    /\ [][\A w \in Workers :
             WritesAs(w, "fetch_remote_question")
             => \A r \in RecIds :
                   r # inv'[w].local /\ activities[r].object.id # inv'[w].doc.id
                   => activities'[r] = activities[r]]_vars

\* The poll task fetched revision 2 of q1: the Create of q1 embeds it, the
\* Announce whose snapshot cache_object had stored holds it as meta.object, and
\* the records of the other activities hold nothing of it.
C19_Witness ==
    /\ Done(1, "fetch_remote_question") /\ inv[1].err = NoErr
    /\ inv[1].doc = Doc("q1", 2) /\ inv[1].local = 1
    /\ inv[1].matched = {2}
    /\ activities[1].body = Doc("q1", 2)
    /\ activities[2].object = Doc("q1", 2)
    /\ activities[4].body = Doc("p1", 1) /\ activities[4].object = NoDoc

\* C20: a fetch_og_meta whose activity resolved and is no Create writes nothing
\* and ends with the empty response.
C20_NonCreateEndsDone ==
    \A w \in Workers :
        /\ Done(w, "fetch_og_meta")
        /\ TypeOf(ActivityOf(inv[w].iri)) # "Create"
        /\ inv[w].at # "resolve"
        => inv[w].signal = "ok" /\ inv[w].rev = 0
====
